---- MODULE Spec2Model ----
(***************************************************************************)
(* Tile/entity interaction engine of the GWC 2024 grid puzzle (src/main.py) *)
(* as a state machine: the Player's fields, the Map's blocks, and one       *)
(* action per key handler (take_turn for w/a/s/d, setup for q).             *)
(*                                                                          *)
(* Python lists are 0-indexed: blocks is a function over 0..h-1 of          *)
(* functions over 0..w-1, indexed blocks[y][x] as in the source.  The level *)
(* templates keep the source's literal rows as tuples (1-indexed), read at  *)
(* [y + 1][x + 1].                                                          *)
(***************************************************************************)
EXTENDS Integers, Sequences, FiniteSets, TLC

VARIABLES
  x, y,            \* Player.x, Player.y
  health,          \* Player.health
  hydration,       \* Player.hydration
  inventory,       \* Player.inventory (a list of item names)
  game_over,       \* Player.game_over
  chosen_level,    \* Player.chosen_level
  move_direction,  \* Player.move_direction ("none" until take_turn sets it)
  blocks,          \* Player.map.blocks
  level_names,     \* maps.keys(): the levels choose_level accepts
  calls,           \* history: the methods the last handler invoked, in order
                   \* (and "IndexError" when it ended by that exception)
  pre              \* history: the state the last take_turn started from (after
                   \* setup, which starts from nothing: the state it built)

vars == <<x, y, health, hydration, inventory, game_over, chosen_level,
          move_direction, blocks, level_names, calls, pre>>

(***************************************************************************)
(* Python helpers                                                           *)
(***************************************************************************)
len(f) == Cardinality(DOMAIN f)

Range(s) == {s[i] : i \in DOMAIN s}

\* list.count(name)
count(s, name) == Cardinality({i \in DOMAIN s : s[i] = name})

(***************************************************************************)
(* DATA: the registries and the level catalog                               *)
(***************************************************************************)
terrain ==
  0 :> "Grass" @@ 1 :> "Ice" @@ 2 :> "Water" @@ 3 :> "Rock" @@
  4 :> "RockFloor" @@ 5 :> "Teleporter" @@ 6 :> "Sludge" @@ 7 :> "Lava" @@
  8 :> "HealBlock" @@ 9 :> "OneTimeHeal" @@ 10 :> "QuickSand"

item == 0 :> "None" @@ 1 :> "Key"

\* win_keys is the n of the template's  lambda x: x.inventory.count("key") == n
maps ==
  "demo" :> [player_start_x |-> 2, player_start_y |-> 0, win_keys |-> 3,
    terrain |-> <<
      <<2, 2, 1, 2, 2, 2>>,
      <<2, 1, 1, 2, 2, 2>>,
      <<1, 1, 2, 2, 1, 1>>,
      <<1, 1, 1, 1, 1, 1>>,
      <<2, 2, 2, 2, 2, 1>>,
      <<2, 2, 2, 2, 1, 1>> >>,
    items |-> <<
      <<0, 0, 0, 0, 0, 0>>,
      <<0, 0, 0, 0, 0, 0>>,
      <<1, 0, 0, 0, 0, 1>>,
      <<0, 0, 0, 0, 0, 0>>,
      <<0, 0, 0, 0, 0, 0>>,
      <<0, 0, 0, 0, 1, 0>> >>]
  @@
  "quicksand" :> [player_start_x |-> 3, player_start_y |-> 1, win_keys |-> 3,
    terrain |-> <<
      <<10, 10, 10, 10, 10>>,
      <<10, 10, 10, 10, 10>>,
      <<10, 10, 10, 10, 10>>,
      <<10, 10, 10, 10, 10>>,
      <<10, 10, 10, 10, 10>> >>,
    items |-> <<
      <<0, 0, 0, 0, 0>>,
      <<0, 0, 0, 0, 0>>,
      <<0, 1, 0, 0, 0>>,
      <<0, 0, 0, 0, 0>>,
      <<0, 0, 0, 1, 0>> >>]
  @@
  "teleport_across" :> [player_start_x |-> 3, player_start_y |-> 3, win_keys |-> 1,
    terrain |-> <<
      <<0, 0, 0, 0, 0, 0, 0, 0, 0, 0, 0, 3, 3, 4, 4>>,
      <<0, 0, 0, 0, 0, 0, 0, 0, 0, 0, 0, 3, 3, 4, 4>>,
      <<0, 0, 0, 0, 0, 0, 0, 0, 0, 0, 0, 3, 4, 4, 4>>,
      <<0, 0, 0, 0, 0, 0, 0, 0, 0, 0, 3, 3, 4, 4, 4>>,
      <<0, 0, 0, 0, 0, 0, 0, 0, 0, 0, 3, 3, 3, 4, 4>>,
      <<0, 0, 0, 0, 0, 0, 0, 0, 0, 3, 3, 3, 3, 4, 4>>,
      <<0, 0, 0, 0, 0, 0, 0, 0, 0, 3, 3, 4, 4, 4, 4>>,
      <<0, 0, 0, 0, 0, 0, 0, 0, 5, 3, 3, 4, 4, 4, 4>>,
      <<0, 0, 0, 0, 0, 0, 0, 0, 0, 3, 3, 4, 4, 4, 4>>,
      <<0, 0, 0, 0, 0, 0, 0, 0, 0, 3, 3, 4, 4, 4, 4>>,
      <<0, 0, 0, 0, 0, 0, 0, 0, 0, 3, 3, 4, 4, 4, 4>>,
      <<0, 0, 0, 0, 0, 0, 0, 0, 3, 3, 3, 4, 4, 4, 4>>,
      <<0, 2, 2, 0, 0, 0, 0, 0, 3, 3, 4, 4, 4, 4, 4>>,
      <<2, 2, 2, 2, 0, 0, 0, 0, 3, 3, 4, 4, 4, 4, 4>>,
      <<2, 2, 2, 2, 2, 2, 0, 0, 3, 3, 3, 4, 4, 4, 4>> >>,
    items |-> <<
      <<0, 0, 0, 0, 0, 0, 0, 0, 0, 0, 0, 0, 0, 0, 0>>,
      <<0, 0, 0, 0, 0, 0, 0, 0, 0, 0, 0, 0, 0, 0, 0>>,
      <<0, 0, 0, 0, 0, 0, 0, 0, 0, 0, 0, 0, 0, 0, 0>>,
      <<0, 0, 0, 0, 0, 0, 0, 0, 0, 0, 0, 0, 0, 0, 0>>,
      <<0, 0, 0, 0, 0, 0, 0, 0, 0, 0, 0, 0, 0, 0, 0>>,
      <<0, 0, 0, 0, 0, 0, 0, 0, 0, 0, 0, 0, 0, 0, 0>>,
      <<0, 0, 0, 0, 0, 0, 0, 0, 0, 0, 0, 0, 0, 0, 0>>,
      <<0, 0, 0, 0, 0, 0, 0, 0, 0, 0, 0, 0, 0, 0, 0>>,
      <<0, 0, 0, 0, 0, 0, 0, 0, 0, 0, 0, 0, 0, 1, 0>>,
      <<0, 0, 0, 0, 0, 0, 0, 0, 0, 0, 0, 0, 0, 0, 0>>,
      <<0, 0, 0, 0, 0, 0, 0, 0, 0, 0, 0, 0, 0, 0, 0>>,
      <<0, 0, 0, 0, 0, 0, 0, 0, 0, 0, 0, 0, 0, 0, 0>>,
      <<0, 0, 0, 0, 0, 0, 0, 0, 0, 0, 0, 0, 0, 0, 0>>,
      <<0, 0, 0, 0, 0, 0, 0, 0, 0, 0, 0, 0, 0, 0, 0>>,
      <<0, 0, 0, 0, 0, 0, 0, 0, 0, 0, 0, 0, 0, 0, 0>> >>]
  @@
  "sludge_lavafields" :> [player_start_x |-> 3, player_start_y |-> 0, win_keys |-> 2,
    terrain |-> <<
      <<6, 6, 6, 4, 6, 6, 7>>,
      <<6, 7, 7, 7, 6, 6, 7>>,
      <<6, 7, 7, 7, 6, 7, 3>>,
      <<6, 6, 3, 6, 6, 3, 4>>,
      <<3, 6, 3, 6, 7, 6, 6>>,
      <<4, 4, 4, 6, 6, 6, 7>>,
      <<4, 4, 4, 4, 6, 7, 7>> >>,
    items |-> <<
      <<0, 0, 0, 0, 0, 0, 0>>,
      <<0, 0, 0, 0, 0, 0, 0>>,
      <<0, 0, 0, 0, 0, 0, 0>>,
      <<0, 0, 0, 0, 0, 0, 1>>,
      <<0, 0, 0, 0, 0, 0, 0>>,
      <<0, 1, 0, 0, 0, 0, 0>>,
      <<0, 0, 0, 0, 0, 0, 0>> >>]
  @@
  "heal_corridor" :> [player_start_x |-> 0, player_start_y |-> 1, win_keys |-> 1,
    terrain |-> <<
      <<3, 3, 3, 3, 3, 3, 3>>,
      <<4, 6, 6, 6, 6, 6, 3>>,
      <<3, 3, 3, 3, 3, 6, 8>>,
      <<3, 6, 6, 6, 6, 6, 3>>,
      <<8, 6, 3, 3, 3, 3, 3>>,
      <<3, 6, 6, 6, 6, 8, 3>>,
      <<3, 3, 3, 3, 3, 3, 3>> >>,
    items |-> <<
      <<0, 0, 0, 0, 0, 0, 0>>,
      <<0, 0, 0, 0, 0, 0, 0>>,
      <<0, 0, 0, 0, 0, 0, 0>>,
      <<0, 0, 0, 0, 0, 0, 0>>,
      <<0, 0, 0, 0, 0, 0, 0>>,
      <<0, 0, 0, 0, 0, 1, 0>>,
      <<0, 0, 0, 0, 0, 0, 0>> >>]

CatalogLevels == DOMAIN maps

(***************************************************************************)
(* Levels added to the catalog for the contract checks (the DATA section    *)
(* invites new maps).  Both are square, built from the same registries:     *)
(*   unit_mix   Ice  Rock   Water      keys on the Sludge cell and on the   *)
(*              Ice  Sludge Water      Grass cell                           *)
(*              Grass Ice   Lava                                            *)
(*   unit_keys  a 2 x 2 Grass field with one key                            *)
(***************************************************************************)
unit_maps ==
  "unit_mix" :> [player_start_x |-> 0, player_start_y |-> 0, win_keys |-> 2,
    terrain |-> <<
      <<1, 3, 2>>,
      <<1, 6, 2>>,
      <<0, 1, 7>> >>,
    items |-> <<
      <<0, 0, 0>>,
      <<0, 1, 0>>,
      <<1, 0, 0>> >>]
  @@
  "unit_keys" :> [player_start_x |-> 1, player_start_y |-> 1, win_keys |-> 1,
    terrain |-> <<
      <<0, 0>>,
      <<0, 0>> >>,
    items |-> <<
      <<1, 0>>,
      <<0, 0>> >>]

UnitLevels == DOMAIN unit_maps

(***************************************************************************)
(* Two more added levels, not square: rect_wide is 4 wide and 2 high,       *)
(* rect_tall is 2 wide and 4 high.  Grass with one Ice cell, two keys each. *)
(***************************************************************************)
rect_maps ==
  "rect_wide" :> [player_start_x |-> 0, player_start_y |-> 0, win_keys |-> 2,
    terrain |-> <<
      <<0, 0, 0, 0>>,
      <<0, 1, 0, 0>> >>,
    items |-> <<
      <<0, 0, 0, 0>>,
      <<0, 1, 0, 1>> >>]
  @@
  "rect_tall" :> [player_start_x |-> 0, player_start_y |-> 0, win_keys |-> 2,
    terrain |-> <<
      <<0, 0>>,
      <<0, 1>>,
      <<0, 0>>,
      <<0, 0>> >>,
    items |-> <<
      <<0, 0>>,
      <<0, 1>>,
      <<0, 0>>,
      <<0, 1>> >>]

RectLevels == DOMAIN rect_maps

\* maps[name], over the catalog and the added levels
level_def(name) ==
  CASE name \in CatalogLevels -> maps[name]
    [] name \in UnitLevels    -> unit_maps[name]
    [] OTHER                  -> rect_maps[name]

Directions == {"up", "left", "down", "right"}

(***************************************************************************)
(* The program state as one record, so that the methods compose in the      *)
(* order the source calls them.                                             *)
(***************************************************************************)
State ==
  [x |-> x, y |-> y, health |-> health, hydration |-> hydration,
   inventory |-> inventory, game_over |-> game_over,
   chosen_level |-> chosen_level, move_direction |-> move_direction,
   blocks |-> blocks, calls |-> calls]

Log(s, c) == [s EXCEPT !.calls = Append(@, c)]

(***************************************************************************)
(* TILES                                                                    *)
(***************************************************************************)
\* Player.has
has(s, item_name) == item_name \in Range(s.inventory)

\* Block.set_tile, Block.set_item
set_tile(s, bx, by, tiletype) == [s EXCEPT !.blocks[by][bx].tiletype = tiletype]

set_item(s, bx, by, it) == [s EXCEPT !.blocks[by][bx].item = it]

TileType_can_enter(s) == TRUE

TileType_can_leave(s) == TRUE

TileType_enter(s) == s

TileType_leave(s, bx, by) == s

\* mutant: ice that does not melt
Ice_leave_stays(s, bx, by) == s

Ice_leave(s, bx, by) == set_tile(s, bx, by, "Water")

\* mutant: water open to everyone
Water_can_enter_always(s) == TRUE

Water_can_enter(s) == has(s, "flippers")

Water_enter(s) == [s EXCEPT !.hydration = 100]

\* mutant: rock that can be walked on
Rock_can_enter_open(s) == TRUE

Rock_can_enter(s) == FALSE

SludgeDamage == 8

\* mutant: the damage lands on the wrong field
Sludge_enter_wrong_field(s) == [s EXCEPT !.hydration = @ - SludgeDamage]

Sludge_enter(s) == [s EXCEPT !.health = @ - SludgeDamage]

(***************************************************************************)
(* ITEMS                                                                    *)
(***************************************************************************)
\* mutant: the claimed item never reaches the inventory
Player_claim_drops(s, item_name) == Log(s, "claim")

\* Player.claim
Player_claim(s, item_name) ==
  Log([s EXCEPT !.inventory = Append(@, item_name)], "claim")

\* mutant: the claimed item stays on its block
Item_claim_keeps_item(s, bx, by, item_name) == Player_claim(s, item_name)

\* Item.claim
Item_claim(s, bx, by, item_name) ==
  set_item(Player_claim(s, item_name), bx, by, "None")

\* mutant: a key that is not picked up
Key_enter_noop(s, bx, by) == s

Key_enter(s, bx, by) == Item_claim(s, bx, by, "key")

(***************************************************************************)
(* Block                                                                    *)
(***************************************************************************)
Block_can_enter(s, bx, by) ==
  LET tt == s.blocks[by][bx].tiletype IN
  CASE tt = "Water" -> Water_can_enter(s)
    [] tt = "Rock"  -> Rock_can_enter(s)
    [] OTHER        -> TileType_can_enter(s)

Block_can_leave(s, bx, by) == TileType_can_leave(s)

Block_enter(s, bx, by) ==
  LET tt == s.blocks[by][bx].tiletype
      s0 == Log(s, "enter")
      s1 == CASE tt = "Water"  -> Water_enter(s0)
              [] tt = "Sludge" -> Sludge_enter(s0)
              [] OTHER         -> TileType_enter(s0)
      s2 == IF s1.blocks[by][bx].item = "Key" THEN Key_enter(s1, bx, by) ELSE s1
  IN [s2 EXCEPT !.blocks[by][bx].has_player = TRUE]

\* mutant: the origin block keeps its player flag
Block_leave_keeps_flag(s, bx, by) ==
  LET tt == s.blocks[by][bx].tiletype
      s0 == Log(s, "leave")
  IN IF tt = "Ice" THEN Ice_leave(s0, bx, by) ELSE TileType_leave(s0, bx, by)

Block_leave(s, bx, by) ==
  LET tt == s.blocks[by][bx].tiletype
      s0 == Log(s, "leave")
      s1 == IF tt = "Ice" THEN Ice_leave(s0, bx, by) ELSE TileType_leave(s0, bx, by)
  IN [s1 EXCEPT !.blocks[by][bx].has_player = FALSE]

(***************************************************************************)
(* Map                                                                      *)
(***************************************************************************)
Map_init(map_name, px, py) ==
  LET map_template == level_def(map_name)
      map_height == Len(map_template.terrain)
      map_width == Len(map_template.terrain[1])
  IN [by \in 0..(map_height - 1) |->
       [bx \in 0..(map_width - 1) |->
         [tiletype |-> terrain[map_template.terrain[by + 1][bx + 1]],
          item |-> item[map_template.items[by + 1][bx + 1]],
          has_player |-> (bx = px /\ by = py)]]]

\* mutant: the win predicate is met one key early
win_condition_one_short(s) ==
  count(s.inventory, "key") = level_def(s.chosen_level).win_keys - 1

\* Map.win_condition, captured from the template when the map is built
win_condition(s) ==
  count(s.inventory, "key") = level_def(s.chosen_level).win_keys

(***************************************************************************)
(* Player                                                                   *)
(***************************************************************************)
FullHealth == 100

FullHydration == 100

DehydrationThreshold == 10

DehydrationDamage == 2

\* choose_level returns once raw_input gave a name of maps.keys(): lvl
choose_level(s, lvl) == Log([s EXCEPT !.chosen_level = lvl], "choose_level")

start_level(s) ==
  LET d == level_def(s.chosen_level) IN
  [Log(s, "start_level") EXCEPT
     !.x = d.player_start_x,
     !.y = d.player_start_y,
     !.health = FullHealth,
     !.inventory = <<>>,
     !.blocks = Map_init(s.chosen_level, d.player_start_x, d.player_start_y)]

win(s) == [Log(s, "win") EXCEPT !.game_over = TRUE]

lose(s) == [Log(s, "lose") EXCEPT !.game_over = TRUE]

new_x_of(s, dir) ==
  CASE dir = "left" -> s.x - 1 [] dir = "right" -> s.x + 1 [] OTHER -> s.x

new_y_of(s, dir) ==
  CASE dir = "up" -> s.y - 1 [] dir = "down" -> s.y + 1 [] OTHER -> s.y

\* the condition of the move, lines 293-295
can_move(s, new_x, new_y) ==
  /\ new_x > -1 /\ new_x < len(s.blocks)
  /\ new_y > -1 /\ new_y < len(s.blocks[0])
  /\ Block_can_enter(s, new_x, new_y)

\* lines 293-295 raise IndexError when the four comparisons pass and
\* blocks[new_y][new_x] is no block: new_y is no row, or new_x no column of it
index_raises(s, new_x, new_y) ==
  /\ new_x > -1 /\ new_x < len(s.blocks)
  /\ new_y > -1 /\ new_y < len(s.blocks[0])
  /\ ~(new_y \in DOMAIN s.blocks /\ new_x \in DOMAIN s.blocks[new_y])

\* lines 296-299
move(s, new_x, new_y) ==
  LET s1 == Block_leave(s, s.x, s.y)
      s2 == Block_enter(s1, new_x, new_y)
  IN [s2 EXCEPT !.x = new_x, !.y = new_y]

\* mutant: the health check misses health = 0
end_of_turn_strict(s) ==
  LET s1 == IF s.health < 0 THEN lose(s) ELSE s
      s2 == IF s1.hydration < DehydrationThreshold
              THEN [s1 EXCEPT !.health = @ - DehydrationDamage]
              ELSE s1
  IN IF win_condition(s2) THEN win(s2) ELSE s2

\* mutant: the penalty applies at the threshold itself
end_of_turn_inclusive(s) ==
  LET s1 == IF s.health <= 0 THEN lose(s) ELSE s
      s2 == IF s1.hydration <= DehydrationThreshold
              THEN [s1 EXCEPT !.health = @ - DehydrationDamage]
              ELSE s1
  IN IF win_condition(s2) THEN win(s2) ELSE s2

\* mutant: the health check is missing
end_of_turn_no_lose(s) ==
  LET s2 == IF s.hydration < DehydrationThreshold
              THEN [s EXCEPT !.health = @ - DehydrationDamage]
              ELSE s
  IN IF win_condition(s2) THEN win(s2) ELSE s2

\* lines 300-306
end_of_turn(s) ==
  LET s1 == IF s.health <= 0 THEN lose(s) ELSE s
      s2 == IF s1.hydration < DehydrationThreshold
              THEN [s1 EXCEPT !.health = @ - DehydrationDamage]
              ELSE s1
  IN IF win_condition(s2) THEN win(s2) ELSE s2

\* mutant: leave is called on the origin before the move is known to happen
try_move_leaves_first(s, dir) ==
  LET new_x == new_x_of(s, dir)
      new_y == new_y_of(s, dir)
  IN IF can_move(s, new_x, new_y)
       THEN move(s, new_x, new_y)
       ELSE Block_leave(s, s.x, s.y)

\* lines 283-299: the candidate destination and the guarded move
try_move(s, dir) ==
  LET new_x == new_x_of(s, dir)
      new_y == new_y_of(s, dir)
  IN IF index_raises(s, new_x, new_y)
       THEN Log(s, "IndexError")
       ELSE IF can_move(s, new_x, new_y) THEN move(s, new_x, new_y) ELSE s

\* an exception leaves take_turn at once: lines 300-306 do not run.  The state
\* is as the statements before it left it, and later keys are handled as usual.
take_turn(s, dir, lvl) ==
  LET s0 == [s EXCEPT !.calls = <<"take_turn">>] IN
  IF s0.game_over
    THEN [start_level(choose_level(s0, lvl)) EXCEPT !.game_over = FALSE]
    ELSE
      LET s1 == [s0 EXCEPT !.move_direction = dir] IN
      IF ~Block_can_leave(s1, s1.x, s1.y)
        THEN s1
        ELSE
          LET s2 == try_move(s1, dir) IN
          IF "IndexError" \in Range(s2.calls) THEN s2 ELSE end_of_turn(s2)

\* setup(): a new Player, a level choice, start_level
setup(lvl) ==
  start_level(choose_level(
    [x |-> 0, y |-> 0, health |-> FullHealth, hydration |-> FullHydration,
     inventory |-> <<>>, game_over |-> FALSE, chosen_level |-> "None",
     move_direction |-> "none", blocks |-> <<>>, calls |-> <<"setup">>], lvl))

(***************************************************************************)
(* Actions: keyPressed dispatches w/a/s/d to take_turn and q to setup       *)
(***************************************************************************)
\* the keys of path pressed one after the other (no reset asks for a new level)
RECURSIVE play(_, _)
play(s, path) ==
  IF path = <<>>
    THEN s
    ELSE play(take_turn(s, Head(path), s.chosen_level), Tail(path))

Becomes(s, from) ==
  /\ x' = s.x /\ y' = s.y
  /\ health' = s.health /\ hydration' = s.hydration
  /\ inventory' = s.inventory /\ game_over' = s.game_over
  /\ chosen_level' = s.chosen_level /\ move_direction' = s.move_direction
  /\ blocks' = s.blocks /\ calls' = s.calls
  /\ pre' = from
  /\ UNCHANGED level_names

\* raw_input is read in the reset branch alone: while playing there is no choice
TakeTurn ==
  \E dir \in Directions :
    \E lvl \in (IF game_over THEN level_names ELSE {chosen_level}) :
      Becomes(take_turn(State, dir, lvl), State)

Setup ==
  \E lvl \in level_names : Becomes(setup(lvl), setup(lvl))

Next == TakeTurn \/ Setup

\* the state setup() leaves, on a level of names
Started(names) ==
  \E lvl \in names :
    LET s == setup(lvl) IN
    /\ x = s.x /\ y = s.y
    /\ health = s.health /\ hydration = s.hydration
    /\ inventory = s.inventory /\ game_over = s.game_over
    /\ chosen_level = s.chosen_level /\ move_direction = s.move_direction
    /\ blocks = s.blocks /\ calls = s.calls
    /\ pre = s
    /\ level_names = names

Init == Started(CatalogLevels)

Spec == Init /\ [][Next]_vars

(***************************************************************************)
(* take_turn as a function of the Player it is called on: the catalog is    *)
(* extended by the unit levels and play starts from a Player whose health,  *)
(* hydration and inventory are drawn from bounded input sets (no catalog    *)
(* tile lowers hydration and no catalog item is "flippers", so the          *)
(* branches that read them are reached from these inputs only).             *)
(***************************************************************************)
MaxLowHealth == 10

HydrationMargin == 1

MaxInputItems == 1

HealthInputs == {FullHealth} \cup 1..MaxLowHealth

HydrationInputs ==
  {0, FullHydration} \cup
  (DehydrationThreshold - HydrationMargin)..(DehydrationThreshold + HydrationMargin)

InventoryInputs ==
  UNION {[1..n -> {"flippers", "key"}] : n \in 0..MaxInputItems}

InitUnit ==
  \E lvl \in UnitLevels, h \in HealthInputs, w \in HydrationInputs,
     inv \in InventoryInputs :
    LET s == [setup(lvl) EXCEPT !.health = h, !.hydration = w, !.inventory = inv] IN
    /\ x = s.x /\ y = s.y
    /\ health = s.health /\ hydration = s.hydration
    /\ inventory = s.inventory /\ game_over = s.game_over
    /\ chosen_level = s.chosen_level /\ move_direction = s.move_direction
    /\ blocks = s.blocks /\ calls = s.calls
    /\ pre = s
    /\ level_names = UnitLevels

SpecUnit == InitUnit /\ [][Next]_vars

(***************************************************************************)
(* Vocabulary of the properties.  A state carries the handler that produced *)
(* it (calls) and the state that handler started from (pre).                *)
(***************************************************************************)
\* the last handler was a take_turn resolved in the Playing state
TurnPlayed == calls[1] = "take_turn" /\ ~pre.game_over

\* the last handler was a take_turn called while the game was over
TurnReset == calls[1] = "take_turn" /\ pre.game_over

Called(c) == c \in Range(calls)

Moved == Called("enter")

Won == game_over /\ Called("win")

Lost == game_over /\ Called("lose")

Cells(b) == UNION {{<<bx, by>> : bx \in DOMAIN b[by]} : by \in DOMAIN b}

\* the candidate destination of the last turn
dest_x == new_x_of(pre, move_direction)

dest_y == new_y_of(pre, move_direction)

DestInGrid == <<dest_x, dest_y>> \in Cells(pre.blocks)

\* the tile the destination held when the turn started
DestTile == pre.blocks[dest_y][dest_x].tiletype

OriginTile == pre.blocks[pre.y][pre.x].tiletype

PlayerCells == {c \in Cells(blocks) : blocks[c[2]][c[1]].has_player}

\* the health the check of line 300 read: the dehydration penalty comes after it
HealthAtCheck ==
  health + (IF hydration < DehydrationThreshold THEN DehydrationDamage ELSE 0)

(***************************************************************************)
(* C1: in every reachable state of a catalog level at most one Block has    *)
(* has_player set, and that Block is the one at the player's (x, y).        *)
(***************************************************************************)
C1_OnePlayerBlock ==
  /\ Cardinality(PlayerCells) <= 1
  /\ \A c \in PlayerCells : c = <<x, y>>

\* the player has moved, and the flag moved with it
C1_Witness ==
  /\ TurnPlayed /\ Moved
  /\ PlayerCells = {<<x, y>>}
  /\ ~blocks[pre.y][pre.x].has_player

C3_ThirdKeyWins ==
  chosen_level = "demo" =>
    /\ (/\ TurnPlayed /\ Moved
        /\ pre.blocks[y][x].item = "Key"
        /\ count(pre.inventory, "key") = 2) => Won
    /\ Won => count(inventory, "key") = 3

C3_Witness ==
  /\ chosen_level = "demo" /\ TurnPlayed /\ Moved
  /\ pre.blocks[y][x].item = "Key" /\ count(pre.inventory, "key") = 2
  /\ Won

(***************************************************************************)
(* More vocabulary: the level template, and what a turn left alone.         *)
(***************************************************************************)
template_tile(lvl, bx, by) == terrain[level_def(lvl).terrain[by + 1][bx + 1]]

template_item(lvl, bx, by) == item[level_def(lvl).items[by + 1][bx + 1]]

\* nothing of the last turn touched the player's position or any block
Stayed ==
  /\ x = pre.x /\ y = pre.y
  /\ ~Called("enter") /\ ~Called("leave")
  /\ blocks = pre.blocks

\* the dehydration penalty the last turn applied
Penalty == IF hydration < DehydrationThreshold THEN DehydrationDamage ELSE 0

C4_ResetKeepsHydration ==
  TurnReset =>
    /\ ~game_over
    /\ health = 100
    /\ hydration = pre.hydration
    /\ inventory = <<>>
    /\ x = level_def(chosen_level).player_start_x
    /\ y = level_def(chosen_level).player_start_y
    /\ ~Called("enter") /\ ~Called("leave")
    /\ move_direction = pre.move_direction
    /\ \A c \in Cells(blocks) :
         /\ blocks[c[2]][c[1]].tiletype = template_tile(chosen_level, c[1], c[2])
         /\ blocks[c[2]][c[1]].item = template_item(chosen_level, c[1], c[2])

\* a reset onto the same level after an attempt that melted ice and took a key
C4_ResetSeen ==
  /\ TurnReset /\ chosen_level = pre.chosen_level
  /\ hydration # 100
  /\ pre.inventory # <<>>
  /\ \E c \in Cells(blocks) :
       /\ blocks[c[2]][c[1]].tiletype = "Ice"
       /\ pre.blocks[c[2]][c[1]].tiletype = "Water"

(***************************************************************************)
(* C5: a turn whose destination holds a Rock leaves the position unchanged  *)
(* and does not call leave on the origin: an Ice origin is still Ice and    *)
(* the origin keeps its has_player flag.                                    *)
(***************************************************************************)
C5_RockBlocks ==
  (TurnPlayed /\ DestInGrid /\ DestTile = "Rock") =>
    /\ x = pre.x /\ y = pre.y
    /\ ~Called("leave")
    /\ blocks[pre.y][pre.x].tiletype = OriginTile
    /\ blocks[pre.y][pre.x].has_player

\* a step from Ice against a Rock
C5_Witness ==
  /\ TurnPlayed /\ DestInGrid /\ DestTile = "Rock"
  /\ OriginTile = "Ice" /\ blocks[y][x].tiletype = "Ice"

(***************************************************************************)
(* C6: in every catalog level a turn whose destination is off the grid      *)
(* (x or y is -1, x is the width, y is the height) changes no position and  *)
(* calls neither enter nor leave on any block.                              *)
(***************************************************************************)
DestOffGrid ==
  \/ dest_x = -1 \/ dest_x = len(pre.blocks[0])
  \/ dest_y = -1 \/ dest_y = len(pre.blocks)

C6_EdgeBlocks == (TurnPlayed /\ DestOffGrid) => Stayed

\* a step off the right edge; the other three edges are reached as well
C6_Witness == TurnPlayed /\ dest_x = len(pre.blocks[0]) /\ Stayed

C6_Witness_left == TurnPlayed /\ dest_x = -1 /\ Stayed

C6_Witness_top == TurnPlayed /\ dest_y = -1 /\ Stayed

C6_Witness_bottom == TurnPlayed /\ dest_y = len(pre.blocks) /\ Stayed

(***************************************************************************)
(* C7: entering an Ice cell changes neither the player's stats nor the      *)
(* cell's tile; leaving an Ice cell by a move turns it to Water; and a      *)
(* Water cell is Water after every turn played, left or not.                *)
(***************************************************************************)
C7_IceMelts ==
  TurnPlayed =>
    /\ (Moved /\ DestTile = "Ice") =>
         /\ blocks[y][x].tiletype = "Ice"
         /\ hydration = pre.hydration
         /\ health = pre.health - Penalty
    /\ (Moved /\ OriginTile = "Ice") => blocks[pre.y][pre.x].tiletype = "Water"
    /\ \A c \in Cells(pre.blocks) :
         pre.blocks[c[2]][c[1]].tiletype = "Water" =>
           blocks[c[2]][c[1]].tiletype = "Water"

\* the player leaves a cell that melted earlier in this attempt
C7_Witness ==
  /\ TurnPlayed /\ Moved
  /\ template_tile(chosen_level, pre.x, pre.y) = "Ice"
  /\ OriginTile = "Water"
  /\ blocks[pre.y][pre.x].tiletype = "Water"

(***************************************************************************)
(* C8: entering a cell that holds a Key appends exactly one "key" to the    *)
(* inventory and leaves the cell without item; an item-less cell stays so   *)
(* and entering it adds nothing.                                            *)
(***************************************************************************)
C8_KeyClaimedOnce ==
  TurnPlayed =>
    /\ (Moved /\ pre.blocks[y][x].item = "Key") =>
         /\ inventory = Append(pre.inventory, "key")
         /\ blocks[y][x].item = "None"
    /\ (Moved /\ pre.blocks[y][x].item = "None") => inventory = pre.inventory
    /\ ~Moved => inventory = pre.inventory
    /\ \A c \in Cells(pre.blocks) :
         pre.blocks[c[2]][c[1]].item = "None" => blocks[c[2]][c[1]].item = "None"

\* the player re-enters the cell whose key it holds
C8_Witness ==
  /\ TurnPlayed /\ Moved
  /\ template_item(chosen_level, x, y) = "Key"
  /\ pre.blocks[y][x].item = "None"
  /\ count(inventory, "key") >= 1

(***************************************************************************)
(* C9: a move onto a Water cell is refused, with no enter or leave, when    *)
(* the inventory holds no "flippers"; when it holds them the move happens   *)
(* and the turn ends with hydration 100 whatever it was.                    *)
(***************************************************************************)
C9_WaterNeedsFlippers ==
  (TurnPlayed /\ DestInGrid /\ DestTile = "Water") =>
    IF "flippers" \in Range(pre.inventory)
      THEN Moved /\ x = dest_x /\ y = dest_y /\ hydration = 100
      ELSE Stayed

\* a dehydrated player with flippers steps into water
C9_Witness ==
  /\ TurnPlayed /\ DestInGrid /\ DestTile = "Water" /\ Moved
  /\ pre.hydration < DehydrationThreshold /\ hydration = 100

C9_Witness_refused ==
  /\ TurnPlayed /\ DestInGrid /\ DestTile = "Water" /\ Stayed

(***************************************************************************)
(* C10: a turn played that has hydration below 10 at its end-of-turn check  *)
(* loses exactly 2 health on top of the tile damage of that turn; with      *)
(* hydration 10 or above it loses the tile damage alone.                    *)
(***************************************************************************)
TileDamage == IF Moved /\ DestTile = "Sludge" THEN 8 ELSE 0

C10_Dehydration ==
  TurnPlayed =>
    IF hydration < 10
      THEN health = pre.health - TileDamage - 2
      ELSE health = pre.health - TileDamage

\* sludge and dehydration in one turn
C10_Witness ==
  /\ TurnPlayed /\ Moved /\ DestTile = "Sludge"
  /\ hydration < 10 /\ health = pre.health - 10

C10_Witness_threshold ==
  /\ TurnPlayed /\ hydration = 10 /\ health = pre.health

(***************************************************************************)
(* C11 as stated: entering a Sludge cell costs exactly 8 health (on top of  *)
(* the dehydration penalty of the turn) and the cell is RockFloor right     *)
(* after the entry.                                                         *)
(***************************************************************************)
C11_SludgeClears ==
  (TurnPlayed /\ Moved /\ DestTile = "Sludge") =>
    /\ health = pre.health - 8 - Penalty
    /\ blocks[y][x].tiletype = "RockFloor"

(***************************************************************************)
(* C11, what the code does: Sludge.enter subtracts 8 and never calls        *)
(* set_tile, so the cell is Sludge after the entry and costs 8 every time.  *)
(***************************************************************************)
C11_SludgeStays ==
  (TurnPlayed /\ Moved /\ DestTile = "Sludge") =>
    /\ health = pre.health - 8 - Penalty
    /\ blocks[y][x].tiletype = "Sludge"

C11_SludgeEntered == TurnPlayed /\ Moved /\ DestTile = "Sludge"

(***************************************************************************)
(* The program with the two non-square levels as its catalog.               *)
(***************************************************************************)
InitRect == Started(RectLevels)

SpecRect == InitRect /\ [][Next]_vars

\* a tile the player of the last turn could enter
Enterable(tt) ==
  CASE tt = "Rock"  -> FALSE
    [] tt = "Water" -> "flippers" \in Range(pre.inventory)
    [] OTHER        -> TRUE

(***************************************************************************)
(* C12 as stated: on any rectangular grid, w # h included, the turn engine  *)
(* takes a destination as in bounds exactly when 0 <= x < w and 0 <= y < h: *)
(* it never indexes outside the grid, never refuses an in-grid enterable    *)
(* cell, and never moves off the grid.                                      *)
(***************************************************************************)
C12_BoundsAreWidthHeight ==
  TurnPlayed =>
    /\ ~Called("IndexError")
    /\ (DestInGrid /\ Enterable(DestTile)) => (Moved /\ x = dest_x /\ y = dest_y)
    /\ ~DestInGrid => Stayed

\* C12, its two halves apart
C12_NeverIndexesOutside == TurnPlayed => ~Called("IndexError")

C12_NeverRefusesInGrid ==
  (TurnPlayed /\ DestInGrid /\ Enterable(DestTile)) => Moved

(***************************************************************************)
(* C12, what the code does: it compares new_x with the number of rows and   *)
(* new_y with the length of a row, so a destination is taken as in bounds   *)
(* exactly when 0 <= x < h and 0 <= y < w, and the indexing that follows    *)
(* raises IndexError when that cell is not in the grid.                     *)
(***************************************************************************)
C12_BoundsAreSwapped ==
  TurnPlayed =>
    LET h == len(pre.blocks)
        w == len(pre.blocks[0])
        taken == dest_x \in 0..(h - 1) /\ dest_y \in 0..(w - 1)
    IN /\ Called("IndexError") <=> (taken /\ ~DestInGrid)
       /\ Moved <=> (taken /\ DestInGrid /\ Enterable(DestTile))
       /\ ~Moved => (x = pre.x /\ y = pre.y /\ blocks = pre.blocks)

C12_RaisedSeen == TurnPlayed /\ Called("IndexError")

C12_RefusedSeen ==
  TurnPlayed /\ DestInGrid /\ Enterable(DestTile) /\ ~Moved /\ ~Called("IndexError")

C13_LoseAndWinIndependent ==
  (TurnPlayed /\ ~Called("IndexError")) =>
    /\ Called("lose") <=> HealthAtCheck <= 0
    /\ Called("win") <=> win_condition(State)
    /\ game_over <=> (Called("lose") \/ Called("win"))

\* the last key lies on Sludge and the step onto it takes the last health
C13_BothSeen ==
  /\ TurnPlayed /\ Moved /\ DestTile = "Sludge" /\ pre.blocks[y][x].item = "Key"
  /\ pre.health > 0
  /\ Called("lose") /\ Called("win")

(***************************************************************************)
(* C14 as stated: a turn played whose destination is out of bounds or not   *)
(* enterable leaves the whole state unchanged: position, health, hydration, *)
(* inventory, every cell's tile, item and has_player flag, and game_over.   *)
(***************************************************************************)
Blocked == TurnPlayed /\ (~DestInGrid \/ ~Enterable(DestTile))

DemoSolution ==
  <<"down", "left", "down", "left",
    "down", "right", "right", "right", "right", "up", "right",
    "down", "down", "down", "left">>

\* the state start_level leaves: after setup, or after a reset
Fresh == calls[Len(calls)] = "start_level"

C15_DemoWinnable ==
  (chosen_level = "demo" /\ Fresh) =>
    LET e == play(State, DemoSolution) IN
    /\ e.game_over /\ "win" \in Range(e.calls) /\ ~("lose" \in Range(e.calls))
    /\ count(e.inventory, "key") = 3

\* the demo won by the actions themselves, on the last cell of DemoSolution
C15_Witness ==
  /\ chosen_level = "demo" /\ Won /\ x = 4 /\ y = 5
  /\ count(inventory, "key") = 3
  /\ health = FullHealth

(***************************************************************************)
(* C16: on the catalog levels hydration is 100 in every reachable state, so *)
(* the dehydration branch is never taken: a turn costs its tile damage and  *)
(* nothing more.                                                            *)
(***************************************************************************)
C16_HydrationFull ==
  /\ hydration = 100
  /\ TurnPlayed => health = pre.health - TileDamage

\* a damaging turn next to Water the player may not enter
C16_Witness ==
  /\ TurnPlayed /\ Moved /\ DestTile = "Sludge"
  /\ hydration = 100 /\ health = pre.health - 8 /\ health < 50

(***************************************************************************)
(* C17: within a level attempt the "key" entries of the inventory plus the  *)
(* cells that hold a Key number the keys of the level's item template, and  *)
(* no turn played changes that sum.                                         *)
(***************************************************************************)
KeysHeld == count(inventory, "key")

KeysOnGrid == Cardinality({c \in Cells(blocks) : blocks[c[2]][c[1]].item = "Key"})

KeysInTemplate ==
  Cardinality({c \in Cells(blocks) : template_item(chosen_level, c[1], c[2]) = "Key"})

KeysBefore ==
  count(pre.inventory, "key") +
  Cardinality({c \in Cells(pre.blocks) : pre.blocks[c[2]][c[1]].item = "Key"})

\* the step alone, which holds of any Player a turn is played on
C17_TurnKeepsKeys == TurnPlayed => KeysHeld + KeysOnGrid = KeysBefore

C17_KeysConserved ==
  /\ KeysHeld + KeysOnGrid = KeysInTemplate
  /\ TurnPlayed => KeysHeld + KeysOnGrid = KeysBefore

\* some keys held, some still on the grid
C17_Witness == KeysHeld >= 1 /\ KeysOnGrid >= 1 /\ TurnPlayed /\ Called("claim")

(***************************************************************************)
(* C18: on the catalog levels game_over is true exactly when health is at   *)
(* or below 0 or the win predicate holds; while playing, health is between  *)
(* 1 and 100 and the win predicate is false.                                *)
(***************************************************************************)
C18_GameOverIff ==
  /\ game_over <=> (health <= 0 \/ win_condition(State))
  /\ ~game_over => (health \in 1..100 /\ ~win_condition(State))

\* lost, not won
C18_Witness ==
  /\ TurnPlayed /\ game_over /\ health <= 0 /\ ~win_condition(State)

C18_Witness_won ==
  /\ TurnPlayed /\ game_over /\ health > 0 /\ win_condition(State)

====
